---- MODULE Spec2Model ----
\* The video -> product-image pipeline of backend/app: run_workflow (a linear
\* LangGraph of six nodes), the GeminiService calls with their retry loops,
\* the rembg fallback and process_video's mapping of the outcome to a response.
EXTENDS Integers, Sequences, FiniteSets, TLC

\* ------------------------------------------------------------------ bounds
\* Number of decodable frames of the longest video considered.
MaxVideoFrames == 7
\* The call and sleep counters stop counting here (above what one job makes).
CounterCap == 10

\* ------------------------------------------------------ program constants
max_video_duration == 300
frame_sample_rate == 2
max_frames == 15
top_n == 3
best_frame_max_retries == 3
segment_max_retries == 1
enhance_attempts == 3
shots_wanted == 2
default_retry_after == 20
best_frame_base_delay == 5
enhance_base_delay == 20

None == 0 - 1

JobIds == {1}
VideoUrl == "https://youtu.be/v"

\* ------------------------------------------------------------------ text
\* A text is a sequence of one-character strings.  "sup2" stands for a
\* character such as U+00B2 for which str.isdigit() is true and int() fails.
DecimalChars == <<"0", "1", "2", "3", "4", "5", "6", "7", "8", "9">>

IsDecimalChar(c) == \E i \in 1..Len(DecimalChars) : DecimalChars[i] = c

\* str.isdigit() of one character
IsDigitChar(c) == IsDecimalChar(c) \/ c = "sup2"

DigitVal(c) == (CHOOSE i \in 1..Len(DecimalChars) : DecimalChars[i] = c) - 1

RECURSIVE LStrip(_)
LStrip(s) == IF s # <<>> /\ Head(s) = " " THEN LStrip(Tail(s)) ELSE s

RECURSIVE RStrip(_)
RStrip(s) ==
  IF s # <<>> /\ s[Len(s)] = " " THEN RStrip(SubSeq(s, 1, Len(s) - 1)) ELSE s

\* str.strip()
Strip(s) == RStrip(LStrip(s))

\* str.isdigit(): non-empty and every character a digit
IsDigit(s) == s # <<>> /\ \A i \in 1..Len(s) : IsDigitChar(s[i])

\* int(s) succeeds on a string of decimal digits; otherwise ValueError
IntRaises(s) == s = <<>> \/ \E i \in 1..Len(s) : ~IsDecimalChar(s[i])

RECURSIVE IntOf(_)
IntOf(s) ==
  IF s = <<>> THEN 0
  ELSE 10 * IntOf(SubSeq(s, 1, Len(s) - 1)) + DigitVal(s[Len(s)])

\* text.split(","): the fields between commas (one empty field for "")
RECURSIVE SplitFrom(_, _, _)
SplitFrom(s, i, cur) ==
  IF i > Len(s) THEN <<cur>>
  ELSE IF s[i] = "," THEN <<cur>> \o SplitFrom(s, i + 1, <<>>)
  ELSE SplitFrom(s, i + 1, Append(cur, s[i]))

Split(s) == SplitFrom(s, 1, <<>>)

\* gemini.py _extract_first_integer: the first maximal run of digit characters
RECURSIVE FirstDigitRun(_, _)
FirstDigitRun(s, digits) ==
  IF s = <<>> THEN digits
  ELSE IF IsDigitChar(Head(s)) THEN FirstDigitRun(Tail(s), Append(digits, Head(s)))
  ELSE IF digits # <<>> THEN digits
  ELSE FirstDigitRun(Tail(s), digits)

\* TRUE when _extract_first_integer raises ValueError on text
ExtractFirstIntegerRaises(text) == IntRaises(FirstDigitRun(text, <<>>))

_extract_first_integer(text) == IntOf(FirstDigitRun(text, <<>>))

\* ------------------------------------------------------------------ paths
\* Variant of Path: the job directory is left out of the path.
PathWithoutJob(job, dir, name, n) == [job |-> 0, dir |-> dir, name |-> name, n |-> n]

\* A path {root}/{job}/{dir}/{name}{n}.{ext}; dir "." is the job directory.
Path(job, dir, name, n) == [job |-> job, dir |-> dir, name |-> name, n |-> n]

\* video.py: destination_dir / f"frame_{frame_index:03d}.jpg"
FramePath(job, frame_index) == Path(job, "frames", "frame", frame_index)

\* file_paths.py ensure_job_paths: job_dir / "segmented.png"
segmented_image_path(job) == Path(job, ".", "segmented", 0)

\* Variant of enhancement_path: the file is put in the job directory.
enhancement_path_in_job_dir(job, suffix) == Path(job, ".", suffix[1], suffix[2])

\* file_paths.py JobPaths.enhancement_path(suffix): enhanced_dir /
\* f"enhanced_{suffix}.png"; suffix is <<style, 0>> or <<"fallback", k>>
enhancement_path(job, suffix) == Path(job, "enhanced", suffix[1], suffix[2])

styles == <<"studio", "lifestyle", "creative">>

\* ----------------------------------------------------------------- errors
\* A provider (SDK) error: quota-classified or not, with the retry delay its
\* text suggests (None when the text names none).
ProviderErrors ==
  { [quota |-> FALSE, hint |-> None],
    [quota |-> TRUE, hint |-> None],
    [quota |-> TRUE, hint |-> 0],
    [quota |-> TRUE, hint |-> 7] }

\* gemini.py _is_quota_error: (is_quota, retry_after)
_is_quota_error(e) ==
  IF ~e.quota THEN [is_quota |-> FALSE, retry_after |-> None]
  ELSE [is_quota |-> TRUE,
        retry_after |-> IF e.hint = None THEN default_retry_after ELSE e.hint]

\* Python truthiness of an optional float
Truthy(x) == x # None /\ x # 0

\* last_error = None: no attempt of the running loop has failed
NoProviderError == [quota |-> FALSE, hint |-> None]

NoError == [type |-> "none", msg |-> "", causes |-> <<>>]

Exc(type, msg) == [type |-> type, msg |-> msg, causes |-> <<>>]

\* Variant of ExcFrom: only the error being handled is reported.
ExcFromLast(type, msg, causes) ==
  [type |-> type, msg |-> msg, causes |-> <<causes[Len(causes)]>>]

\* An exception whose message reports the errors it was built from
ExcFrom(type, msg, causes) == [type |-> type, msg |-> msg, causes |-> causes]

\* ------------------------------------------------------- provider answers
\* The outcome of one generate_content call that returns text.
TextAnswer(t) == [kind |-> "text", text |-> t, err |-> NoProviderError]

ErrorAnswer(e) == [kind |-> "error", text |-> <<>>, err |-> e]

\* Answers to the top-frames prompt
TopTexts ==
  { <<>>,
    <<"x">>,
    <<"1", ",", " ", "3", ",", "2">>,
    <<"2", ",", "2", ",", "2">>,
    <<"9">>,
    <<"3">>,
    <<"0", ",", "1", ",", "2", ",", "3", ",", "1">>,
    <<"sup2">> }

\* Answers to the product-name prompt
NameTexts == { <<>>, <<" ">>, <<" ", "M", " ">> }

\* Answers to the best-frame prompt
BestTexts ==
  { <<>>, <<"x">>, <<"0">>, <<" ", "1">>, <<"2">>, <<"-", "1">>, <<"1", "2">>,
    <<"sup2">> }

\* --------------------------------------------------- select_top_frames
Contains(seq, x) == \E i \in 1..Len(seq) : seq[i] = x

\* [x.strip() for x in text.split(",") if x.strip().isdigit()]
DigitFields(text) ==
  LET fields == Split(text)
      stripped == [i \in 1..Len(fields) |-> Strip(fields[i])]
  IN SelectSeq(stripped, IsDigit)

\* for i in range(len(frames)): if i not in indices and len(indices) < top_n:
\*   indices.append(i)
RECURSIVE PadIndices(_, _, _)
PadIndices(indices, i, n) ==
  IF i >= n THEN indices
  ELSE IF ~Contains(indices, i) /\ Len(indices) < top_n
    THEN PadIndices(Append(indices, i), i + 1, n)
    ELSE PadIndices(indices, i + 1, n)

Range0(k) == [i \in 1..k |-> i - 1]

Min(a, b) == IF a < b THEN a ELSE b

Prefix(seq, k) == SubSeq(seq, 1, Min(k, Len(seq)))

\* Variant of NormalizeIndices: a longer list is not cut to top_n.
NormalizeIndicesUntruncated(indices, n) ==
  LET sized == IF Len(indices) < top_n THEN PadIndices(indices, 0, n) ELSE indices
      InRange(idx) == 0 <= idx /\ idx < n
      valid_indices == SelectSeq(sized, InRange)
  IN IF valid_indices = <<>> THEN Range0(Min(top_n, n)) ELSE valid_indices

\* gemini.py 165-182: pad or truncate to top_n, then drop the out-of-range
\* indices, then fall back to the first frames when nothing is left
NormalizeIndices(indices, n) ==
  LET sized == IF Len(indices) # top_n
                 THEN IF Len(indices) < top_n THEN PadIndices(indices, 0, n)
                      ELSE Prefix(indices, top_n)
                 ELSE indices
      InRange(idx) == 0 <= idx /\ idx < n
      valid_indices == SelectSeq(sized, InRange)
      chosen == IF valid_indices = <<>> THEN Range0(Min(top_n, n)) ELSE valid_indices
  IN Prefix(chosen, top_n)

\* Variant of select_top_frames: the provider is asked about top_n frames too.
select_top_frames_below(n, answer) ==
  IF n = 0 THEN
    [ok |-> FALSE, called |-> FALSE, value |-> <<>>,
     exc |-> Exc("GeminiServiceError", "No frames provided for frame selection")]
  ELSE IF n < top_n THEN
    [ok |-> TRUE, called |-> FALSE, value |-> Range0(n), exc |-> NoError]
  ELSE IF answer.kind = "error" THEN
    [ok |-> FALSE, called |-> TRUE, value |-> <<>>,
     exc |-> Exc("GeminiServiceError", "Gemini top frames selection failed")]
  ELSE
    [ok |-> TRUE, called |-> TRUE, value |-> Range0(Min(top_n, n)), exc |-> NoError]

\* GeminiService.select_top_frames on n frames; answer is what the provider
\* returns if it is called.  The result tells whether the provider was called.
select_top_frames(n, answer) ==
  IF n = 0 THEN
    [ok |-> FALSE, called |-> FALSE, value |-> <<>>,
     exc |-> Exc("GeminiServiceError", "No frames provided for frame selection")]
  ELSE IF n <= top_n THEN
    [ok |-> TRUE, called |-> FALSE, value |-> Range0(n), exc |-> NoError]
  ELSE IF answer.kind = "error" THEN
    [ok |-> FALSE, called |-> TRUE, value |-> <<>>,
     exc |-> Exc("GeminiServiceError", "Gemini top frames selection failed")]
  ELSE
    LET fields == DigitFields(Strip(answer.text)) IN
    IF \E i \in 1..Len(fields) : IntRaises(fields[i]) THEN
      [ok |-> FALSE, called |-> TRUE, value |-> <<>>,
       exc |-> Exc("GeminiServiceError", "Unable to parse frame indices from Gemini response")]
    ELSE
      [ok |-> TRUE, called |-> TRUE,
       value |-> NormalizeIndices([i \in 1..Len(fields) |-> IntOf(fields[i])], n),
       exc |-> NoError]

\* ---------------------------------------------------------- frame sampling
\* video.py 143-149: fps of 0 reads as 30; at least one frame per interval
FrameInterval(fps) ==
  LET f == IF fps <= 0 THEN 30 ELSE fps
      interval == f * frame_sample_rate
  IN IF interval <= 0 THEN f ELSE interval

\* Variant of SampleLoop: frames are saved until the video ends.
RECURSIVE SampleLoopUncapped(_, _, _, _)
SampleLoopUncapped(frame_index, total, interval, sampled) ==
  IF frame_index >= total THEN sampled
  ELSE IF frame_index % interval = 0
    THEN SampleLoopUncapped(frame_index + 1, total, interval, Append(sampled, frame_index))
    ELSE SampleLoopUncapped(frame_index + 1, total, interval, sampled)

\* video.py 156-168: the indices of the frames saved from a video of
\* total decodable frames, in reading order
RECURSIVE SampleLoop(_, _, _, _)
SampleLoop(frame_index, total, interval, sampled) ==
  IF Len(sampled) >= max_frames \/ frame_index >= total THEN sampled
  ELSE IF frame_index % interval = 0
    THEN SampleLoop(frame_index + 1, total, interval, Append(sampled, frame_index))
    ELSE SampleLoop(frame_index + 1, total, interval, sampled)

Durations == {None, 120, 300, 301}

FpsValues == {0, 1}

\* ------------------------------------------------------------------ state
VARIABLES
  state,          \* WorkflowState: the keys set so far and their values
  job_paths,      \* the JobPaths captured by the nodes (its job id)
  node,           \* position in the graph: START, a node, END or RAISED
  pc,             \* position inside the running node
  error,          \* the exception that left graph.invoke, NoError if none
  response,       \* process_video's answer: "none", "success", "400", "500"
  fs,             \* files written so far: path -> content
  attempt,        \* loop variable of the running retry loop
  delay,          \* delay computed by the running retry loop
  style_idx,      \* enhancement node: index into styles
  enhanced_paths, \* enhancement node: paths collected so far
  gemini_error,   \* segmentation node: the primary strategy's error
  last_error,     \* retry loops: the provider error of the failed attempt
  duration,       \* extraction: the duration _download_video reported
  result,         \* best-frame node: what select_best_frame returned or raised
  started,        \* nodes in the order they were started
  returned,       \* nodes in the order they returned
  calls,          \* collaborator calls made, per operation
  sleeps          \* time.sleep calls made, per node

vars ==
  <<state, job_paths, node, pc, error, response, fs, attempt, delay, style_idx,
    enhanced_paths, gemini_error, last_error, duration, result, started,
    returned, calls, sleeps>>

Nodes ==
  <<"extract_frames", "select_top_frames", "identify_product",
    "select_best_frame", "segment_image", "enhance_images">>

Ops ==
  {"selectTopFrames", "identifyProduct", "selectBestFrame", "segment",
   "generateShot", "remove"}

Has(key) == key \in DOMAIN state

Write(fsys, path, content) == (path :> content) @@ fsys

Exists(path) == path \in DOMAIN fs

Count(c) == IF c < CounterCap THEN c + 1 ELSE c

Called(op) == [calls EXCEPT ![op] = Count(@)]

Slept(nd) == [sleeps EXCEPT ![nd] = Count(@)]

NoResult == [kind |-> "none", delay |-> None, value |-> 0, exc |-> NoError]

Init ==
  /\ \E job \in JobIds :
       /\ state = [video_url |-> VideoUrl, job_id |-> job]
       /\ job_paths = [job_id |-> job]
  /\ node = "START"
  /\ pc = "run"
  /\ error = NoError
  /\ response = "none"
  /\ fs = <<>>
  /\ attempt = 0
  /\ delay = None
  /\ style_idx = 1
  /\ enhanced_paths = <<>>
  /\ gemini_error = NoError
  /\ last_error = NoProviderError
  /\ duration = None
  /\ result = NoResult
  /\ started = <<>>
  /\ returned = <<>>
  /\ calls = [op \in Ops |-> 0]
  /\ sleeps = [nd \in {Nodes[i] : i \in 1..Len(Nodes)} |-> 0]

\* Variant of Edge: the chain leaves identify_product out.
EdgeSkippingIdentify(n) ==
  CASE n = "START" -> "extract_frames"
    [] n = "extract_frames" -> "select_top_frames"
    [] n = "select_top_frames" -> "select_best_frame"
    [] n = "identify_product" -> "select_best_frame"
    [] n = "select_best_frame" -> "segment_image"
    [] n = "segment_image" -> "enhance_images"
    [] n = "enhance_images" -> "END"

\* workflow.py 54-60: the edges of the graph
Edge(n) ==
  CASE n = "START" -> "extract_frames"
    [] n = "extract_frames" -> "select_top_frames"
    [] n = "select_top_frames" -> "identify_product"
    [] n = "identify_product" -> "select_best_frame"
    [] n = "select_best_frame" -> "segment_image"
    [] n = "segment_image" -> "enhance_images"
    [] n = "enhance_images" -> "END"

LocalsReset ==
  /\ pc' = "run"
  /\ attempt' = 0
  /\ delay' = None
  /\ style_idx' = 1
  /\ enhanced_paths' = <<>>
  /\ gemini_error' = NoError
  /\ last_error' = NoProviderError
  /\ duration' = None
  /\ result' = NoResult

\* Variant of Return: the update replaces the state instead of being merged.
ReturnReplacing(update) ==
  /\ state' = update
  /\ returned' = Append(returned, node)
  /\ node' = Edge(node)
  /\ started' = IF Edge(node) = "END" THEN started ELSE Append(started, Edge(node))
  /\ error' = error
  /\ LocalsReset

\* LangGraph: the running node returns update; it is merged into the state
\* and the node on the outgoing edge starts.
Return(update) ==
  /\ state' = update @@ state
  /\ returned' = Append(returned, node)
  /\ node' = Edge(node)
  /\ started' = IF Edge(node) = "END" THEN started ELSE Append(started, Edge(node))
  /\ error' = error
  /\ LocalsReset

\* Variant of Raise: the error is recorded and the next node still starts.
RaiseAndGoOn(exc) ==
  /\ error' = exc
  /\ returned' = returned
  /\ node' = Edge(node)
  /\ started' = IF Edge(node) = "END" THEN started ELSE Append(started, Edge(node))
  /\ state' = state
  /\ LocalsReset

\* The running node raises: the exception leaves graph.invoke and run_workflow.
Raise(exc) ==
  /\ error' = exc
  /\ node' = "RAISED"
  /\ UNCHANGED <<state, started, returned>>
  /\ LocalsReset

\* The running node goes on (to a sleep, a next attempt, a next style).
Stay == UNCHANGED <<state, node, error, started, returned>>

\* run_workflow 66-72: graph.invoke(initial_state) starts the first node
Invoke ==
  /\ node = "START"
  /\ node' = Edge(node)
  /\ started' = Append(started, Edge(node))
  /\ UNCHANGED <<state, job_paths, pc, error, response, fs, attempt, delay,
                 style_idx, enhanced_paths, gemini_error, last_error, duration,
                 result, returned, calls, sleeps>>
\* ------------------------------------------------------- FrameExtraction
\* Variant of download_and_sample_frames without the duration check.
download_and_sample_frames_unchecked(reported, opened, fps, total, written) ==
  IF ~opened THEN
    [ok |-> FALSE, frames |-> <<>>,
     exc |-> Exc("VideoProcessingError", "Unable to open video for processing")]
  ELSE
    LET sampled == SampleLoop(0, total, FrameInterval(fps), <<>>) IN
    IF sampled = <<>> \/ ~written THEN
      [ok |-> FALSE, frames |-> <<>>,
       exc |-> Exc("VideoProcessingError", "No frames extracted from video")]
    ELSE [ok |-> TRUE, frames |-> sampled, exc |-> NoError]

\* video.py download_and_sample_frames after _download_video returned:
\* reported is the duration it reported, opened whether cv2 opens the file,
\* total the number of decodable frames and written whether cv2.imwrite
\* succeeds.
download_and_sample_frames(reported, opened, fps, total, written) ==
  IF Truthy(reported) /\ reported > max_video_duration THEN
    [ok |-> FALSE, frames |-> <<>>,
     exc |-> Exc("VideoProcessingError", "Video duration exceeds limit")]
  ELSE IF ~opened THEN
    [ok |-> FALSE, frames |-> <<>>,
     exc |-> Exc("VideoProcessingError", "Unable to open video for processing")]
  ELSE
    LET sampled == SampleLoop(0, total, FrameInterval(fps), <<>>) IN
    IF sampled # <<>> /\ ~written THEN
      [ok |-> FALSE, frames |-> <<>>,
       exc |-> Exc("VideoProcessingError", "Failed to write frame")]
    ELSE IF sampled = <<>> THEN
      [ok |-> FALSE, frames |-> <<>>,
       exc |-> Exc("VideoProcessingError", "No frames extracted from video")]
    ELSE [ok |-> TRUE, frames |-> sampled, exc |-> NoError]

RECURSIVE WriteFrames(_, _, _)
WriteFrames(fsys, job, frames) ==
  IF frames = <<>> THEN fsys
  ELSE WriteFrames(Write(fsys, FramePath(job, Head(frames)),
                         [by |-> "video", n |-> Head(frames)]),
                   job, Tail(frames))

\* video.py 43: _download_video returns (video_path, duration) or, all its
\* attempts failed, raises VideoProcessingError
DownloadVideo ==
  /\ node = "extract_frames"
  /\ pc = "run"
  /\ \E downloaded \in BOOLEAN, reported \in Durations :
       IF downloaded
         THEN /\ duration' = reported
              /\ pc' = "sample"
              /\ Stay
              /\ UNCHANGED <<attempt, delay, style_idx, enhanced_paths,
                             gemini_error, last_error, result>>
         ELSE Raise(Exc("VideoProcessingError", "Unable to download video"))
  /\ UNCHANGED <<job_paths, response, fs, calls, sleeps>>

\* workflow.py _make_extract_frames_node, video.py 45-55, for a video of
\* one of the given numbers of decodable frames
ExtractFramesOf(totals) ==
  /\ node = "extract_frames"
  /\ pc = "sample"
  /\ \E opened \in BOOLEAN, fps \in FpsValues, total \in totals,
        written \in BOOLEAN :
       LET r == download_and_sample_frames(duration, opened, fps, total, written)
           job == job_paths.job_id
       IN /\ fs' = WriteFrames(fs, job, r.frames)
          /\ IF r.ok
               THEN Return("sampled_frames" :>
                             [i \in 1..Len(r.frames) |-> FramePath(job, r.frames[i])])
               ELSE Raise(r.exc)
  /\ UNCHANGED <<job_paths, response, calls, sleeps>>

ExtractFrames == ExtractFramesOf(0..MaxVideoFrames)

\* ------------------------------------------------------ TopFrameSelection
TopAnswers ==
  {TextAnswer(t) : t \in TopTexts} \cup {ErrorAnswer(e) : e \in ProviderErrors}

\* workflow.py _make_select_top_frames_node
SelectTopFrames ==
  /\ node = "select_top_frames"
  /\ pc = "run"
  /\ \E answer \in TopAnswers :
       LET all_frames == IF Has("sampled_frames") THEN state.sampled_frames ELSE <<>>
           r == select_top_frames(Len(all_frames), answer)
       IN /\ calls' = IF r.called THEN Called("selectTopFrames") ELSE calls
          /\ IF all_frames = <<>>
               THEN Raise(Exc("ValueError", "No frames available for top frame selection"))
               ELSE IF r.ok
                 THEN Return("top_frames" :>
                               [i \in 1..Len(r.value) |-> all_frames[r.value[i] + 1]])
                 ELSE Raise(r.exc)
  /\ UNCHANGED <<job_paths, response, fs, sleeps>>

\* --------------------------------------------------- ProductIdentification
NameAnswers ==
  {TextAnswer(t) : t \in NameTexts} \cup {ErrorAnswer(e) : e \in ProviderErrors}

\* Variant of identify_product without the empty-name check.
identify_product_unstripped(answer) ==
  IF answer.kind = "error" THEN
    [ok |-> FALSE, value |-> <<>>,
     exc |-> Exc("GeminiServiceError", "Gemini product identification failed")]
  ELSE [ok |-> TRUE, value |-> Strip(answer.text), exc |-> NoError]

\* Variant of identify_product: a provider failure is absorbed by a default
\* name.
identify_product_defaulting(answer) ==
  IF answer.kind = "error" THEN
    [ok |-> TRUE, value |-> <<"p">>, exc |-> NoError]
  ELSE IF Strip(answer.text) = <<>> THEN
    [ok |-> FALSE, value |-> <<>>,
     exc |-> Exc("GeminiServiceError", "Gemini returned an empty product name")]
  ELSE [ok |-> TRUE, value |-> Strip(answer.text), exc |-> NoError]

\* Variant of identify_product: the answer is tested and returned as it came.
identify_product_untrimmed(answer) ==
  IF answer.kind = "error" THEN
    [ok |-> FALSE, value |-> <<>>,
     exc |-> Exc("GeminiServiceError", "Gemini product identification failed")]
  ELSE IF answer.text = <<>> THEN
    [ok |-> FALSE, value |-> <<>>,
     exc |-> Exc("GeminiServiceError", "Gemini returned an empty product name")]
  ELSE [ok |-> TRUE, value |-> answer.text, exc |-> NoError]

\* GeminiService.identify_product on a non-empty list of frames
identify_product(answer) ==
  IF answer.kind = "error" THEN
    [ok |-> FALSE, value |-> <<>>,
     exc |-> Exc("GeminiServiceError", "Gemini product identification failed")]
  ELSE IF Strip(answer.text) = <<>> THEN
    [ok |-> FALSE, value |-> <<>>,
     exc |-> Exc("GeminiServiceError", "Gemini returned an empty product name")]
  ELSE [ok |-> TRUE, value |-> Strip(answer.text), exc |-> NoError]

\* workflow.py _make_identify_product_node
IdentifyProduct ==
  /\ node = "identify_product"
  /\ \E answer \in NameAnswers :
       LET top_frames == IF Has("top_frames") THEN state.top_frames ELSE <<>>
           r == identify_product(answer)
       IN IF top_frames = <<>>
            THEN /\ Raise(Exc("ValueError", "No top frames available for product identification"))
                 /\ calls' = calls
            ELSE /\ calls' = Called("identifyProduct")
                 /\ IF r.ok THEN Return("product_name" :> r.value) ELSE Raise(r.exc)
  /\ UNCHANGED <<job_paths, response, fs, sleeps>>

\* ------------------------------------------------------ BestFrameSelection
BestAnswers ==
  {TextAnswer(t) : t \in BestTexts} \cup {ErrorAnswer(e) : e \in ProviderErrors}

\* gemini.py 221: the delay slept after a failed attempt (0-based) that is
\* not the last
best_frame_delay(e, att) ==
  LET q == _is_quota_error(e) IN
  IF q.is_quota /\ Truthy(q.retry_after) THEN q.retry_after
  ELSE best_frame_base_delay * (att + 1)

\* Variant of select_best_frame: the last failed attempt is slept on too.
select_best_frame_sleeping_last(att, answer, max_retries) ==
  IF answer.kind = "error" THEN
    IF att < max_retries
      THEN [kind |-> "sleep", delay |-> best_frame_delay(answer.err, att),
            value |-> 0, exc |-> NoError]
      ELSE [kind |-> "raise", delay |-> None, value |-> 0,
            exc |-> Exc("GeminiServiceError", "Gemini best frame selection failed")]
  ELSE IF ExtractFirstIntegerRaises(Strip(answer.text))
    THEN [kind |-> "raise", delay |-> None, value |-> 0,
          exc |-> Exc("GeminiServiceError", "Unable to parse frame index from Gemini response")]
    ELSE [kind |-> "return", delay |-> None,
          value |-> _extract_first_integer(Strip(answer.text)), exc |-> NoError]

\* GeminiService.select_best_frame, one pass of its retry loop at attempt att
\* (0-based) with the provider's answer: sleep and retry, return an index, or
\* raise GeminiServiceError
select_best_frame(att, answer, max_retries) ==
  IF answer.kind = "error" THEN
    IF att < max_retries - 1
      THEN [kind |-> "sleep", delay |-> best_frame_delay(answer.err, att),
            value |-> 0, exc |-> NoError]
      ELSE [kind |-> "raise", delay |-> None, value |-> 0,
            exc |-> Exc("GeminiServiceError", "Gemini best frame selection failed")]
  ELSE IF ExtractFirstIntegerRaises(Strip(answer.text))
    THEN [kind |-> "raise", delay |-> None, value |-> 0,
          exc |-> Exc("GeminiServiceError", "Unable to parse frame index from Gemini response")]
    ELSE [kind |-> "return", delay |-> None,
          value |-> _extract_first_integer(Strip(answer.text)), exc |-> NoError]

\* Variant of best_frame_node: a raise of select_best_frame is not caught.
best_frame_node_no_fallback(top_frames, r) ==
  LET index == r.value
      checked == IF index < 0 \/ index >= Len(top_frames) THEN 0 ELSE index
  IN IF r.kind = "raise"
       THEN [ok |-> FALSE, update |-> ("best_frame_path" :> top_frames[1]), exc |-> r.exc]
       ELSE [ok |-> TRUE, update |-> ("best_frame_path" :> top_frames[checked + 1]),
             exc |-> NoError]

\* Variant of best_frame_node: the fallback picks the last top frame.
best_frame_node_last(top_frames, r) ==
  LET index == IF r.kind = "raise" THEN Len(top_frames) - 1 ELSE r.value
      checked == IF index < 0 \/ index >= Len(top_frames) THEN 0 ELSE index
  IN [ok |-> TRUE, update |-> ("best_frame_path" :> top_frames[checked + 1]),
      exc |-> NoError]

\* Variant of best_frame_node: the returned index is ignored.
best_frame_node_always_first(top_frames, r) ==
  [ok |-> TRUE, update |-> ("best_frame_path" :> top_frames[1]), exc |-> NoError]

\* Variant of best_frame_node: an out-of-range index is an error of the node.
best_frame_node_strict(top_frames, r) ==
  LET index == IF r.kind = "raise" THEN 0 ELSE r.value
  IN IF index < 0 \/ index >= Len(top_frames)
       THEN [ok |-> FALSE, update |-> ("best_frame_path" :> top_frames[1]),
             exc |-> Exc("IndexError", "list index out of range")]
       ELSE [ok |-> TRUE, update |-> ("best_frame_path" :> top_frames[index + 1]),
             exc |-> NoError]

\* workflow.py 126-145: what the node does with select_best_frame's outcome r
\* (a return or a raise) on top_frames
best_frame_node(top_frames, r) ==
  LET index == IF r.kind = "raise" THEN 0 ELSE r.value
      checked == IF index < 0 \/ index >= Len(top_frames) THEN 0 ELSE index
  IN [ok |-> TRUE, update |-> ("best_frame_path" :> top_frames[checked + 1]),
      exc |-> NoError]

\* workflow.py _make_best_frame_node: one provider call of the retry loop
SelectBestFrame ==
  /\ node = "select_best_frame"
  /\ pc = "run"
  /\ \E answer \in BestAnswers :
       LET top_frames == IF Has("top_frames") THEN state.top_frames ELSE <<>>
           r == select_best_frame(attempt, answer, best_frame_max_retries)
       IN IF top_frames = <<>>
            THEN /\ Raise(Exc("ValueError", "No top frames available for best frame selection"))
                 /\ calls' = calls
            ELSE IF ~Has("product_name")
              THEN /\ Raise(Exc("KeyError", "product_name"))
                   /\ calls' = calls
              ELSE /\ calls' = Called("selectBestFrame")
                   /\ Stay
                   /\ UNCHANGED <<attempt, style_idx, enhanced_paths, gemini_error,
                                  duration>>
                   /\ IF r.kind = "sleep"
                        THEN /\ delay' = r.delay
                             /\ last_error' = answer.err
                             /\ pc' = "sleep"
                             /\ result' = result
                        ELSE /\ result' = r
                             /\ pc' = "resolve"
                             /\ UNCHANGED <<delay, last_error>>
  /\ UNCHANGED <<job_paths, response, fs, sleeps>>

\* workflow.py 126-145: select_best_frame returned or raised into the node
BestFrameResolve ==
  /\ node = "select_best_frame"
  /\ pc = "resolve"
  /\ LET out == best_frame_node(state.top_frames, result)
     IN IF out.ok THEN Return(out.update) ELSE Raise(out.exc)
  /\ UNCHANGED <<job_paths, response, fs, calls, sleeps>>

\* Variant of BestFrameSleep: the loop does not advance to the next attempt.
BestFrameSleepForever ==
  /\ node = "select_best_frame"
  /\ pc = "sleep"
  /\ sleeps' = Slept(node)
  /\ pc' = "run"
  /\ Stay
  /\ UNCHANGED <<job_paths, response, fs, attempt, delay, last_error, duration,
                 result, style_idx, enhanced_paths, gemini_error, calls>>

\* gemini.py 229-230: time.sleep(delay); continue
BestFrameSleep ==
  /\ node = "select_best_frame"
  /\ pc = "sleep"
  /\ sleeps' = Slept(node)
  /\ attempt' = attempt + 1
  /\ pc' = "run"
  /\ Stay
  /\ UNCHANGED <<job_paths, response, fs, delay, last_error, duration, result,
                 style_idx, enhanced_paths, gemini_error, calls>>
\* ------------------------------------------------------------ Segmentation
ImageAnswer == [kind |-> "image", text |-> <<>>, err |-> NoProviderError]

NoImageAnswer == [kind |-> "noimage", text |-> <<>>, err |-> NoProviderError]

ImageAnswers == {ImageAnswer, NoImageAnswer} \cup {ErrorAnswer(e) : e \in ProviderErrors}

\* Variant of segment_product: a quota failure of the first attempt is retried.
segment_product_retrying(att, answer, max_retries) ==
  IF answer.kind = "error" THEN
    IF att < max_retries - 1 \/ (answer.err.quota /\ att = 0)
      THEN [kind |-> "retry", exc |-> NoError]
      ELSE [kind |-> "raise",
            exc |-> Exc("GeminiServiceError", "Gemini segmentation failed")]
  ELSE IF answer.kind = "noimage"
    THEN [kind |-> "raise",
          exc |-> Exc("GeminiServiceError", "Gemini did not return image data for segmentation")]
    ELSE [kind |-> "bytes", exc |-> NoError]

\* GeminiService.segment_product, one pass of its loop at attempt att: retry
\* at once (never with max_retries = 1), return the image bytes, or raise
segment_product(att, answer, max_retries) ==
  IF answer.kind = "error" THEN
    IF att < max_retries - 1
      THEN [kind |-> "retry", exc |-> NoError]
      ELSE [kind |-> "raise",
            exc |-> Exc("GeminiServiceError", "Gemini segmentation failed")]
  ELSE IF answer.kind = "noimage"
    THEN [kind |-> "raise",
          exc |-> Exc("GeminiServiceError", "Gemini did not return image data for segmentation")]
    ELSE [kind |-> "bytes", exc |-> NoError]

\* workflow.py 152-180: the primary strategy
SegmentImage ==
  /\ node = "segment_image"
  /\ pc = "run"
  /\ \E answer \in ImageAnswers :
       LET best_frame_path == state.best_frame_path
           segmented_path == segmented_image_path(job_paths.job_id)
           r == segment_product(attempt, answer, segment_max_retries)
       IN IF ~Has("best_frame_path")
            THEN /\ Raise(Exc("KeyError", "best_frame_path"))
                 /\ UNCHANGED <<calls, fs>>
          ELSE IF ~Exists(best_frame_path)
            THEN /\ Raise(Exc("ValueError", "Best frame not found"))
                 /\ UNCHANGED <<calls, fs>>
            ELSE /\ calls' = Called("segment")
                 /\ IF r.kind = "bytes"
                      THEN /\ fs' = Write(fs, segmented_path,
                                          [by |-> "gemini_segment", n |-> fs[best_frame_path].n])
                           /\ Return("segmented_image_path" :> segmented_path)
                      ELSE /\ fs' = fs
                           /\ Stay
                           /\ last_error' = answer.err
                           /\ UNCHANGED <<delay, duration, result, style_idx,
                                          enhanced_paths>>
                           /\ IF r.kind = "retry"
                                THEN /\ attempt' = attempt + 1
                                     /\ UNCHANGED <<pc, gemini_error>>
                                ELSE /\ gemini_error' = r.exc
                                     /\ pc' = "fallback"
                                     /\ attempt' = attempt
  /\ UNCHANGED <<job_paths, response, sleeps>>

RembgAnswers == {"ok", "fail"}

\* services/segmentation.py segment_product (rembg) on an existing image
rembg_segment_product(source_exists, answer) ==
  IF ~source_exists THEN
    [ok |-> FALSE, exc |-> Exc("SegmentationError", "Source image for segmentation not found")]
  ELSE IF answer = "fail" THEN
    [ok |-> FALSE, exc |-> Exc("SegmentationError", "Failed to remove background from image")]
  ELSE [ok |-> TRUE, exc |-> NoError]

\* Variant of SegmentFallback: a first failure of rembg is tried again.
SegmentFallbackRetrying ==
  /\ node = "segment_image"
  /\ pc = "fallback"
  /\ \E answer \in RembgAnswers :
       LET best_frame_path == state.best_frame_path
           segmented_path == segmented_image_path(job_paths.job_id)
           r == rembg_segment_product(Exists(best_frame_path), answer)
       IN /\ calls' = Called("remove")
          /\ IF r.ok
               THEN /\ fs' = Write(fs, segmented_path,
                                   [by |-> "rembg", n |-> fs[best_frame_path].n])
                    /\ Return("segmented_image_path" :> segmented_path)
               ELSE IF calls["remove"] = 0
                 THEN /\ fs' = fs
                      /\ Stay
                      /\ UNCHANGED <<pc, attempt, delay, style_idx, enhanced_paths,
                                     gemini_error, last_error, duration, result>>
                 ELSE /\ fs' = fs
                      /\ Raise(ExcFrom("ValueError",
                                       "Both Gemini and rembg segmentation failed",
                                       <<gemini_error.msg, r.exc.msg>>))
  /\ UNCHANGED <<job_paths, response, sleeps>>

\* workflow.py 178-194: the fallback strategy
SegmentFallback ==
  /\ node = "segment_image"
  /\ pc = "fallback"
  /\ \E answer \in RembgAnswers :
       LET best_frame_path == state.best_frame_path
           segmented_path == segmented_image_path(job_paths.job_id)
           r == rembg_segment_product(Exists(best_frame_path), answer)
       IN /\ calls' = Called("remove")
          /\ IF r.ok
               THEN /\ fs' = Write(fs, segmented_path,
                                   [by |-> "rembg", n |-> fs[best_frame_path].n])
                    /\ Return("segmented_image_path" :> segmented_path)
               ELSE /\ fs' = fs
                    /\ Raise(ExcFrom("ValueError",
                                     "Both Gemini and rembg segmentation failed",
                                     <<gemini_error.msg, r.exc.msg>>))
  /\ UNCHANGED <<job_paths, response, sleeps>>

\* ------------------------------------------------------------- Enhancement
\* gemini.py 407: the delay slept after a quota failure that is retried
enhance_delay(e, att) ==
  LET q == _is_quota_error(e) IN
  IF Truthy(q.retry_after) THEN q.retry_after ELSE enhance_base_delay * (att + 1)

\* Variant of generate_enhanced_shot: every provider error is retried.
generate_enhanced_shot_retrying_all(att, answer) ==
  IF answer.kind = "error" THEN
    IF att < enhance_attempts - 1
      THEN [kind |-> "sleep", delay |-> enhance_delay(answer.err, att), exc |-> NoError]
      ELSE [kind |-> "raise", delay |-> None,
            exc |-> Exc("GeminiServiceError", "Gemini image enhancement failed")]
  ELSE IF answer.kind = "noimage"
    THEN [kind |-> "raise", delay |-> None,
          exc |-> Exc("GeminiServiceError", "Gemini did not return image data in response")]
  ELSE [kind |-> "bytes", delay |-> None, exc |-> NoError]

\* Variant of generate_enhanced_shot: a quota error is retried once more.
generate_enhanced_shot_once_more(att, answer) ==
  IF answer.kind = "error" THEN
    IF _is_quota_error(answer.err).is_quota /\ att < enhance_attempts
      THEN [kind |-> "sleep", delay |-> enhance_delay(answer.err, att), exc |-> NoError]
      ELSE [kind |-> "raise", delay |-> None,
            exc |-> Exc("GeminiServiceError", "Gemini image enhancement failed")]
  ELSE IF answer.kind = "noimage"
    THEN [kind |-> "raise", delay |-> None,
          exc |-> Exc("GeminiServiceError", "Gemini did not return image data in response")]
  ELSE [kind |-> "bytes", delay |-> None, exc |-> NoError]

\* GeminiService.generate_enhanced_shot, one pass of its retry loop at
\* attempt att (0-based): sleep and retry, return the image bytes, or raise
generate_enhanced_shot(att, answer) ==
  IF answer.kind = "error" THEN
    IF _is_quota_error(answer.err).is_quota /\ att < enhance_attempts - 1
      THEN [kind |-> "sleep", delay |-> enhance_delay(answer.err, att), exc |-> NoError]
      ELSE [kind |-> "raise", delay |-> None,
            exc |-> Exc("GeminiServiceError", "Gemini image enhancement failed")]
  ELSE IF answer.kind = "noimage"
    THEN [kind |-> "raise", delay |-> None,
          exc |-> Exc("GeminiServiceError", "Gemini did not return image data in response")]
    ELSE [kind |-> "bytes", delay |-> None, exc |-> NoError]

\* Variant of PadShots: an if in place of the while, one copy at most.
PadShotsOnce(paths, fsys, segmented_path, job) ==
  IF Len(paths) >= shots_wanted THEN [paths |-> paths, fs |-> fsys]
  ELSE
    LET source_path == IF paths # <<>> THEN paths[1] ELSE segmented_path
        fallback_path == enhancement_path(job, <<"fallback", Len(paths) + 1>>)
    IN [paths |-> Append(paths, fallback_path),
        fs |-> Write(fsys, fallback_path, fsys[source_path])]

\* Variant of PadShots: every copy is taken from the segmented image.
RECURSIVE PadShotsFromSegmented(_, _, _, _)
PadShotsFromSegmented(paths, fsys, segmented_path, job) ==
  IF Len(paths) >= shots_wanted THEN [paths |-> paths, fs |-> fsys]
  ELSE
    LET fallback_path == enhancement_path(job, <<"fallback", Len(paths) + 1>>)
    IN PadShotsFromSegmented(Append(paths, fallback_path),
                             Write(fsys, fallback_path, fsys[segmented_path]),
                             segmented_path, job)

\* workflow.py 248-259: fallback copies until shots_wanted paths exist
RECURSIVE PadShots(_, _, _, _)
PadShots(paths, fsys, segmented_path, job) ==
  IF Len(paths) >= shots_wanted THEN [paths |-> paths, fs |-> fsys]
  ELSE
    LET source_path == IF paths # <<>> THEN paths[1] ELSE segmented_path
        fallback_path == enhancement_path(job, <<"fallback", Len(paths) + 1>>)
    IN PadShots(Append(paths, fallback_path),
                Write(fsys, fallback_path, fsys[source_path]),
                segmented_path, job)

\* Variant of LoopOver: the loop goes through every style.
LoopOverAllStyles(paths, idx) == idx > Len(styles)

\* workflow.py 215-217: the style loop is over
LoopOver(paths, idx) == Len(paths) >= shots_wanted \/ idx > Len(styles)

\* workflow.py _make_enhancement_node: one provider call of the style loop
EnhanceImages ==
  /\ node = "enhance_images"
  /\ pc = "run"
  /\ \E answer \in ImageAnswers :
       LET segmented_path == state.segmented_image_path
           job == job_paths.job_id
           style == styles[style_idx]
           r == generate_enhanced_shot(attempt, answer)
           output_path == enhancement_path(job, <<style, 0>>)
           paths == IF r.kind = "bytes" THEN Append(enhanced_paths, output_path)
                    ELSE enhanced_paths
           fsys == IF r.kind = "bytes"
                     THEN Write(fs, output_path, [by |-> style, n |-> fs[segmented_path].n])
                     ELSE fs
           padded == PadShots(paths, fsys, segmented_path, job)
       IN IF ~Has("segmented_image_path")
            THEN /\ Raise(Exc("KeyError", "segmented_image_path"))
                 /\ UNCHANGED <<calls, fs>>
          ELSE IF ~Exists(segmented_path)
            THEN /\ Raise(Exc("ValueError", "Segmented image not found"))
                 /\ UNCHANGED <<calls, fs>>
            ELSE /\ calls' = Called("generateShot")
                 /\ IF r.kind = "sleep"
                      THEN /\ delay' = r.delay
                           /\ last_error' = answer.err
                           /\ pc' = "sleep"
                           /\ Stay
                           /\ UNCHANGED <<fs, attempt, style_idx, enhanced_paths,
                                          gemini_error, duration, result>>
                      ELSE IF LoopOver(paths, style_idx + 1)
                        THEN /\ fs' = padded.fs
                             /\ Return("enhanced_shots" :> padded.paths)
                        ELSE /\ fs' = fsys
                             /\ enhanced_paths' = paths
                             /\ style_idx' = style_idx + 1
                             /\ attempt' = 0
                             /\ delay' = None
                             /\ last_error' = NoProviderError
                             /\ Stay
                             /\ UNCHANGED <<pc, gemini_error, duration, result>>
  /\ UNCHANGED <<job_paths, response, sleeps>>

\* gemini.py 409-410: time.sleep(delay); continue
EnhanceSleep ==
  /\ node = "enhance_images"
  /\ pc = "sleep"
  /\ sleeps' = Slept(node)
  /\ attempt' = attempt + 1
  /\ pc' = "run"
  /\ Stay
  /\ UNCHANGED <<job_paths, response, fs, delay, last_error, duration, result,
                 style_idx, enhanced_paths, gemini_error, calls>>

\* ---------------------------------------------------------- process_video
\* main.py 56-74: the response to the caller
ResponseFor(nd, exc) ==
  IF nd = "END" THEN "success"
  ELSE IF exc.type \in {"VideoProcessingError", "GeminiServiceError", "SegmentationError"}
    THEN "400"
    ELSE "500"

Respond ==
  /\ node \in {"END", "RAISED"}
  /\ response = "none"
  /\ response' = ResponseFor(node, error)
  /\ UNCHANGED <<state, job_paths, node, pc, error, fs, attempt, delay,
                 style_idx, enhanced_paths, gemini_error, last_error, duration,
                 result, started, returned, calls, sleeps>>

Next ==
  \/ Invoke
  \/ DownloadVideo
  \/ ExtractFrames
  \/ SelectTopFrames
  \/ IdentifyProduct
  \/ SelectBestFrame
  \/ BestFrameSleep
  \/ BestFrameResolve
  \/ SegmentImage
  \/ SegmentFallback
  \/ EnhanceImages
  \/ EnhanceSleep
  \/ Respond

Spec == Init /\ [][Next]_vars

\* Every step that is enabled is eventually taken: the job runs on one
\* thread, and every collaborator call and every sleep returns.
FairSpec == Spec /\ WF_vars(Next)

\* The pipeline-level status of the job
Status ==
  CASE node = "START" -> "Pending"
    [] node = "END" -> "Completed"
    [] node = "RAISED" -> "Failed"
    [] OTHER -> "Running"
\* ------------------------------------- TopFrameSelection on wider inputs
\* The node select_top_frames alone, entered with up to MaxTopInputFrames
\* sampled frames and, when the provider is asked, any answer made of up to
\* MaxReplyFields comma-separated fields.
MaxTopInputFrames == 5
MaxReplyFields == 5

\* Fields of an answer: indices in range, one out of range, one non-integer
ReplyFields == {<<"0">>, <<"1">>, <<"3">>, <<"7">>, <<"x">>}

\* ",".join(fields)
RECURSIVE Join(_)
Join(fields) ==
  IF fields = <<>> THEN <<>>
  ELSE IF Len(fields) = 1 THEN fields[1]
  ELSE fields[1] \o <<",">> \o Join(Tail(fields))

WideTopTexts ==
  {Join(fields) : fields \in UNION {[1..k -> ReplyFields] : k \in 0..MaxReplyFields}}

WideTopAnswers ==
  {TextAnswer(t) : t \in WideTopTexts} \cup {ErrorAnswer(e) : e \in ProviderErrors}

\* gemini.py 162-184, workflow.py 99-101: the node once the provider call
\* of select_top_frames has raised or returned (result holds the answer):
\* the text is parsed and normalised, the indices mapped to frames
TopFramesResolve ==
  /\ node = "select_top_frames"
  /\ pc = "resolve"
  /\ LET all_frames == state.sampled_frames
         r == select_top_frames(Len(all_frames), result)
     IN IF r.ok
          THEN Return("top_frames" :>
                        [i \in 1..Len(r.value) |-> all_frames[r.value[i] + 1]])
          ELSE Raise(r.exc)
  /\ UNCHANGED <<job_paths, response, fs, calls, sleeps>>

\* extract_frames returned n frames of a video of 1 frame per second; with
\* more than top_n frames the provider has been asked and its answer is
\* held in result.
TopInit ==
  /\ \E job \in JobIds, n \in 1..MaxTopInputFrames, answer \in WideTopAnswers :
       LET sampled == [i \in 1..n |-> (i - 1) * FrameInterval(1)]
       IN /\ state = [video_url |-> VideoUrl, job_id |-> job,
                      sampled_frames |-> [i \in 1..n |-> FramePath(job, sampled[i])]]
          /\ job_paths = [job_id |-> job]
          /\ fs = WriteFrames(<<>>, job, sampled)
          /\ IF n <= top_n
               THEN /\ pc = "run"
                    /\ result = NoResult
                    /\ calls = [op \in Ops |-> 0]
               ELSE /\ pc = "resolve"
                    /\ result = answer
                    /\ calls = [op \in Ops |-> IF op = "selectTopFrames" THEN 1 ELSE 0]
  /\ node = "select_top_frames"
  /\ error = NoError
  /\ response = "none"
  /\ attempt = 0
  /\ delay = None
  /\ style_idx = 1
  /\ enhanced_paths = <<>>
  /\ gemini_error = NoError
  /\ last_error = NoProviderError
  /\ duration = None
  /\ started = <<"extract_frames", "select_top_frames">>
  /\ returned = <<"extract_frames">>
  /\ sleeps = [nd \in {Nodes[i] : i \in 1..Len(Nodes)} |-> 0]

TopNext ==
  \/ SelectTopFrames
  \/ TopFramesResolve

TopSpec == TopInit /\ [][TopNext]_vars

\* ------------------------------------------ FrameExtraction on long videos
\* The first three nodes on videos of up to MaxLongVideoFrames decodable
\* frames, enough for the sampling to meet the max_frames cap.
MaxLongVideoFrames == 32

ExtractLongVideo == ExtractFramesOf(0..MaxLongVideoFrames)

LongNext ==
  \/ Invoke
  \/ DownloadVideo
  \/ ExtractLongVideo
  \/ SelectTopFrames
  \/ IdentifyProduct
  \/ Respond

LongSpec == Init /\ [][LongNext]_vars

\* ---------------------------------------------------------- a second job
\* The job of Spec next to a job with another id that runs at the same time
\* on the same static directory and writes, in the order of the nodes, a
\* frame, its segmented image, a generated shot and a fallback copy.
OtherJobIds == {2}

OtherJobFiles(other) ==
  <<[path |-> FramePath(other, 0), content |-> [by |-> "video", n |-> 0]],
    [path |-> segmented_image_path(other), content |-> [by |-> "rembg", n |-> 0]],
    [path |-> enhancement_path(other, <<"studio", 0>>),
     content |-> [by |-> "studio", n |-> 0]],
    [path |-> enhancement_path(other, <<"fallback", shots_wanted>>),
     content |-> [by |-> "studio", n |-> 0]]>>

OtherJobWrites ==
  /\ \E other \in OtherJobIds : \E i \in 1..Len(OtherJobFiles(other)) :
       LET files == OtherJobFiles(other) IN
       /\ \A j \in 1..(i - 1) : Exists(files[j].path)
       /\ ~Exists(files[i].path)
       /\ fs' = Write(fs, files[i].path, files[i].content)
  /\ UNCHANGED <<state, job_paths, node, pc, error, response, attempt, delay,
                 style_idx, enhanced_paths, gemini_error, last_error, duration,
                 result, started, returned, calls, sleeps>>

JobsNext ==
  \/ Next
  \/ OtherJobWrites

JobsSpec == Init /\ [][JobsNext]_vars

\* ================================================================ claims
\* The stage that was running when the job failed
FailedStage == started[Len(started)]

AllKeys ==
  {"video_url", "job_id", "sampled_frames", "top_frames", "product_name",
   "best_frame_path", "segmented_image_path", "enhanced_shots"}

CompletedWithAll ==
  /\ node = "END"
  /\ Has("product_name") /\ state.product_name # <<>>
  /\ Has("best_frame_path") /\ Exists(state.best_frame_path)
  /\ Has("segmented_image_path") /\ Exists(state.segmented_image_path)
  /\ Has("enhanced_shots") /\ Len(state.enhanced_shots) = shots_wanted

BothSegmentationsFailed ==
  /\ FailedStage = "segment_image"
  /\ calls["segment"] = 1 /\ calls["remove"] = 1
  /\ error.type = "ValueError" /\ Len(error.causes) = 2

FatalByDesign ==
  /\ node = "RAISED"
  /\ \/ FailedStage = "extract_frames" /\ error.type = "VideoProcessingError"
     \/ /\ FailedStage = "select_top_frames"
        /\ calls["selectTopFrames"] = 1
        /\ error.type = "GeminiServiceError"
     \/ /\ FailedStage = "identify_product"
        /\ calls["identifyProduct"] = 1
        /\ error.msg \in {"Gemini product identification failed",
                          "Gemini returned an empty product name"}
     \/ BothSegmentationsFailed

\* C1 (as stated): a job whose extraction yielded at least one frame of a
\* video within the duration limit never ends Failed, whatever the
\* collaborators answer.
C1_NeverFailsAfterFrames == node = "RAISED" => ~Has("sampled_frames")

\* C1 (amended): every job ends either Completed with a non-empty
\* product_name, an existing best frame, an existing segmented image and
\* exactly 2 enhanced shots, or Failed by one of the fatal conditions:
\* extraction failed, the top-frames or product-name call failed or gave an
\* unusable answer, or both segmentation strategies failed.
C1_CompletedUnlessFatal == <>(CompletedWithAll \/ FatalByDesign)

C1_Witness ==
  /\ CompletedWithAll
  /\ calls["selectBestFrame"] = best_frame_max_retries
  /\ calls["remove"] = 1
  /\ calls["generateShot"] = enhance_attempts * Len(styles)

\* C2: the stages start in the order of Nodes, each after the previous one
\* returned, none twice, and a Completed run has started and returned all six.
C2_StageOrder ==
  /\ Len(started) <= Len(Nodes)
  /\ \A i \in 1..Len(started) : started[i] = Nodes[i]
  /\ Len(returned) <= Len(started)
  /\ \A i \in 1..Len(returned) : returned[i] = started[i]
  /\ Len(started) - Len(returned) <= 1
  /\ node \notin {"START", "END", "RAISED"} =>
       /\ Len(started) = Len(returned) + 1
       /\ node = started[Len(started)]
  /\ node = "END" => started = Nodes /\ returned = Nodes

C2_Witness == node = "END" /\ response = "success" /\ Len(started) = 6

\* C3: a step that leaves a fatal error behind ends in Failed, starts no
\* stage and sets no state field; and once the job has failed no stage
\* starts, no field is set, no file is written and no collaborator is called.
C3_FailedAtOnce ==
  [][error' # NoError =>
       /\ node' = "RAISED"
       /\ state' = state
       /\ started' = started
       /\ returned' = returned
       /\ error # NoError =>
            /\ error' = error
            /\ calls' = calls
            /\ sleeps' = sleeps
            /\ fs' = fs]_vars

C3_Witness ==
  /\ node = "RAISED"
  /\ response # "none"
  /\ FailedStage = "segment_image"
  /\ calls["generateShot"] = 0
  /\ ~Has("segmented_image_path")

\* C4 (as stated): a job fails only in FrameExtraction, in
\* ProductIdentification with an empty name, or in Segmentation with both
\* strategies failed.
C4_OnlyThreeFatalCases ==
  node = "RAISED" =>
    \/ FailedStage = "extract_frames"
    \/ /\ FailedStage = "identify_product"
       /\ error.msg = "Gemini returned an empty product name"
    \/ BothSegmentationsFailed

\* C4 (amended): a job fails only in FrameExtraction, in TopFrameSelection
\* when its provider call failed or its answer could not be parsed, in
\* ProductIdentification when its provider call failed or the name is empty,
\* or in Segmentation with both strategies failed; never in
\* BestFrameSelection or Enhancement.
C4_FatalStages == node = "RAISED" => FatalByDesign

C4_Witness ==
  /\ node = "RAISED"
  /\ FailedStage = "select_top_frames"
  /\ error.msg = "Gemini top frames selection failed"

\* C5: every job eventually ends, Completed or Failed.
C5_Terminates == <>(node \in {"END", "RAISED"})

C5_Witness ==
  /\ node = "END"
  /\ sleeps["select_best_frame"] = best_frame_max_retries - 1
  /\ sleeps["enhance_images"] = (enhance_attempts - 1) * Len(styles)

\* C6: when the reported duration exceeds the maximum, the extraction step
\* fails the job in FrameExtraction, with no collaborator call made.
C6_TooLongFailsFirst ==
  [][(node = "extract_frames" /\ pc = "sample" /\ duration > max_video_duration) =>
       /\ node' = "RAISED"
       /\ started' = <<"extract_frames">>
       /\ error'.type = "VideoProcessingError"
       /\ \A op \in Ops : calls'[op] = 0]_vars

C6_Witness ==
  /\ node = "RAISED"
  /\ error.msg = "Video duration exceeds limit"
  /\ \A op \in Ops : calls[op] = 0

\* C7: every step keeps every key the state has, with its value.
C7_AppendOnly ==
  [][\A key \in DOMAIN state : key \in DOMAIN state' /\ state'[key] = state[key]]_vars

C7_Witness == node = "END" /\ DOMAIN state = AllKeys

\* C8: once Enhancement has started the job does not fail, and when it has
\* returned enhanced_shots holds exactly 2 entries.
C8_EnhancementNeverFails ==
  Len(started) = Len(Nodes) =>
    /\ node # "RAISED"
    /\ node = "END" => Has("enhanced_shots") /\ Len(state.enhanced_shots) = shots_wanted

C8_Witness ==
  /\ node = "END"
  /\ calls["generateShot"] = enhance_attempts * Len(styles)
  /\ Len(state.enhanced_shots) = shots_wanted

\* The paths of the styles that produced a shot, in style order
GeneratedShots ==
  LET job == job_paths.job_id
      Made(style) == Exists(enhancement_path(job, <<style, 0>>))
      made == SelectSeq(styles, Made)
  IN [i \in 1..Len(made) |-> enhancement_path(job, <<made[i], 0>>)]

IsCopyOf(path, original) == path # original /\ Exists(path) /\ fs[path] = fs[original]

\* C9: with exactly one generated shot, enhanced_shots is that shot followed
\* by a copy of it; with none, both entries are copies of the segmented image.
C9_PaddedWithCopies ==
  node = "END" =>
    LET shots == state.enhanced_shots
        made == GeneratedShots
    IN /\ Len(made) = 1 =>
            /\ shots[1] = made[1]
            /\ IsCopyOf(shots[2], made[1])
       /\ Len(made) = 0 =>
            /\ IsCopyOf(shots[1], state.segmented_image_path)
            /\ IsCopyOf(shots[2], state.segmented_image_path)
            /\ shots[1] # shots[2]

C9_Witness ==
  /\ node = "END"
  /\ Len(GeneratedShots) = 1
  /\ GeneratedShots[1] = enhancement_path(job_paths.job_id, <<"lifestyle", 0>>)
  /\ Len(state.enhanced_shots) = 2

\* C10: when select_best_frame raises (its 3 attempts failed, or its answer
\* holds no integer) the node does not fail the job: it sets best_frame_path
\* to top_frames[0] and Segmentation starts.
C10_FallbackToFirst ==
  [][(node = "select_best_frame" /\ pc = "resolve" /\ result.kind = "raise") =>
       /\ node' = "segment_image"
       /\ error' = NoError
       /\ "best_frame_path" \in DOMAIN state'
       /\ state'.best_frame_path = state.top_frames[1]]_vars

C10_Witness ==
  /\ node = "select_best_frame"
  /\ pc = "resolve"
  /\ result.kind = "raise"
  /\ result.exc.msg = "Gemini best frame selection failed"
  /\ calls["selectBestFrame"] = best_frame_max_retries
  /\ sleeps["select_best_frame"] = best_frame_max_retries - 1

IndexInRange(index, seq) == 0 <= index /\ index < Len(seq)

\* C11: when select_best_frame returns an in-range index i from its third
\* provider call, the two before having failed, the node has made exactly 3
\* calls (and 2 sleeps), makes no further one, and sets best_frame_path to
\* top_frames[i], not to the fallback.
C11_ThirdAttemptUsed ==
  [][(/\ node = "select_best_frame" /\ pc = "resolve"
      /\ result.kind = "return" /\ attempt = best_frame_max_retries - 1
      /\ IndexInRange(result.value, state.top_frames)) =>
       /\ calls["selectBestFrame"] = best_frame_max_retries
       /\ sleeps["select_best_frame"] = best_frame_max_retries - 1
       /\ calls' = calls
       /\ node' = "segment_image"
       /\ state'.best_frame_path = state.top_frames[result.value + 1]]_vars

C11_Witness ==
  /\ node = "segment_image"
  /\ calls["selectBestFrame"] = best_frame_max_retries
  /\ sleeps["select_best_frame"] = best_frame_max_retries - 1
  /\ Len(state.top_frames) >= 2
  /\ state.top_frames[2] # state.top_frames[1]
  /\ state.best_frame_path = state.top_frames[2]

\* C12: best_frame_path, once set, is an element of top_frames; and an index
\* returned outside [0, len(top_frames)) does not fail the job: the node
\* sets best_frame_path to top_frames[0], as it does when the call fails.
C12_BestFrameAmongTop ==
  /\ [](Has("best_frame_path") =>
          \E i \in 1..Len(state.top_frames) :
            state.top_frames[i] = state.best_frame_path)
  /\ [][(/\ node = "select_best_frame" /\ pc = "resolve"
          /\ result.kind = "return"
          /\ ~IndexInRange(result.value, state.top_frames)) =>
           /\ node' = "segment_image"
           /\ error' = NoError
           /\ state'.best_frame_path = state.top_frames[1]]_vars

C12_Witness ==
  /\ node = "select_best_frame"
  /\ pc = "resolve"
  /\ result.kind = "return"
  /\ result.value >= Len(state.top_frames)
  /\ Len(state.top_frames) = top_n

\* The content rembg writes for the best frame
RemoverOutput == [by |-> "rembg", n |-> fs[state.best_frame_path].n]

\* C13: Segmentation calls the provider's segment operation once and never
\* sleeps; when that call fails, whatever the failure, the next step is one
\* BackgroundRemover call on the best frame, and when it succeeds its output
\* is the segmented image and Enhancement starts.
C13_OneCallThenRemover ==
  /\ [](/\ calls["segment"] <= 1
         /\ calls["remove"] <= 1
         /\ sleeps["segment_image"] = 0
         /\ (node = "segment_image" /\ pc = "fallback") =>
              calls["segment"] = 1 /\ calls["remove"] = 0)
  /\ [][(/\ node = "segment_image" /\ pc = "run"
          /\ calls'["segment"] # calls["segment"]
          /\ node' # "enhance_images") =>
           node' = "segment_image" /\ pc' = "fallback" /\ fs' = fs]_vars
  /\ [][(node = "segment_image" /\ pc = "fallback") =>
           /\ calls' = [calls EXCEPT !["remove"] = 1]
           /\ node' = "enhance_images" =>
                /\ state'.segmented_image_path = segmented_image_path(job_paths.job_id)
                /\ fs'[state'.segmented_image_path] = RemoverOutput]_vars

C13_Witness ==
  /\ node = "enhance_images"
  /\ calls["segment"] = 1
  /\ calls["remove"] = 1
  /\ fs[state.segmented_image_path].by = "rembg"
  /\ fs[state.segmented_image_path].n = fs[state.best_frame_path].n

RemoverErrors ==
  {"Source image for segmentation not found", "Failed to remove background from image"}

\* C14: a BackgroundRemover step that does not produce the segmented image
\* fails the job in Segmentation with an error that reports the primary
\* error and the remover's error, and segmented_image_path is not set.
C14_BothErrorsReported ==
  /\ [][(node = "segment_image" /\ pc = "fallback") =>
           \/ node' = "enhance_images" /\ fs'[segmented_image_path(job_paths.job_id)] = RemoverOutput
           \/ /\ node' = "RAISED"
              /\ fs' = fs
              /\ gemini_error # NoError
              /\ Len(error'.causes) = 2
              /\ error'.causes[1] = gemini_error.msg
              /\ error'.causes[2] \in RemoverErrors]_vars
  /\ [](node = "RAISED" /\ FailedStage = "segment_image" =>
          ~Has("segmented_image_path") /\ ~Exists(segmented_image_path(job_paths.job_id)))

C14_Witness ==
  /\ node = "RAISED"
  /\ FailedStage = "segment_image"
  /\ error.causes = <<"Gemini did not return image data for segmentation",
                      "Failed to remove background from image">>
  /\ ~Has("segmented_image_path")
  /\ response = "500"

\* The top-frames node is resolving the provider's text answer
ResolvingTopText ==
  node = "select_top_frames" /\ pc = "resolve" /\ result.kind = "text"

\* The integers an answer lists, in answer order
ListedIndices(text) ==
  LET IsInteger(field) == ~IntRaises(field)
      fields == SelectSeq(DigitFields(Strip(text)), IsInteger)
  IN [i \in 1..Len(fields) |-> IntOf(fields[i])]

\* Those of them that are indices of sampled frames
ValidIndices(text) ==
  LET IsIndex(idx) == IndexInRange(idx, state.sampled_frames)
  IN SelectSeq(ListedIndices(text), IsIndex)

\* The frames at the given (valid) indices
FramesAt(indices) == [i \in 1..Len(indices) |-> state.sampled_frames[indices[i] + 1]]

\* C15: with 3 or fewer sampled frames the node makes no provider call and
\* sets top_frames to sampled_frames, same elements in the same order.
C15_FewFramesUnchanged ==
  [][(/\ node = "select_top_frames" /\ pc = "run"
      /\ Len(state.sampled_frames) <= top_n) =>
       /\ calls' = calls
       /\ node' = "identify_product"
       /\ state'.top_frames = state.sampled_frames]_vars

C15_Witness ==
  /\ node = "identify_product"
  /\ calls["selectTopFrames"] = 0
  /\ Len(state.sampled_frames) = top_n
  /\ state.top_frames = state.sampled_frames

\* C16: when the answer lists more than 3 indices of sampled frames,
\* top_frames is the frames at the first 3 of them, in answer order.
C16_FirstThreeKept ==
  [][(ResolvingTopText /\ Len(ValidIndices(result.text)) > top_n) =>
       /\ node' = "identify_product"
       /\ state'.top_frames = FramesAt(Prefix(ValidIndices(result.text), top_n))]_vars

\* An answer of 5 fields, 4 of them indices of the 4 frames: 0,7,1,3,3
C16_Witness ==
  /\ ResolvingTopText
  /\ Len(state.sampled_frames) = 4
  /\ ListedIndices(result.text) = <<0, 7, 1, 3, 3>>

\* C17: with more than 3 sampled frames, every text answer gives top_frames
\* exactly 3 frames; an answer with fewer than 3 indices of sampled frames
\* gives those, followed by the lowest unused indices in ascending order.
C17_PaddedToThree ==
  [][ResolvingTopText =>
       /\ node' = "identify_product"
       /\ Len(state'.top_frames) = top_n
       /\ Len(ValidIndices(result.text)) < top_n =>
            state'.top_frames =
              FramesAt(PadIndices(ValidIndices(result.text), 0, Len(state.sampled_frames)))]_vars

\* The answer "7" about 4 frames
C17_Witness ==
  /\ ResolvingTopText
  /\ Len(state.sampled_frames) = 4
  /\ result.text = <<"7">>

\* C18: when the answer lists no index of a sampled frame, top_frames is the
\* first 3 sampled frames.
C18_NoValidIndexFirstThree ==
  [][(ResolvingTopText /\ ValidIndices(result.text) = <<>>) =>
       /\ node' = "identify_product"
       /\ state'.top_frames = Prefix(state.sampled_frames, top_n)]_vars

\* The answer "7,7" about 5 frames
C18_Witness ==
  /\ ResolvingTopText
  /\ Len(state.sampled_frames) = 5
  /\ result.text = <<"7", ",", "7">>

\* C19: top_frames, once set, has between 1 and 3 elements, each of them an
\* element of sampled_frames.
C19_TopFramesAmongSampled ==
  Has("top_frames") =>
    /\ Len(state.top_frames) >= 1
    /\ Len(state.top_frames) <= top_n
    /\ \A i \in 1..Len(state.top_frames) :
         \E j \in 1..Len(state.sampled_frames) :
           state.sampled_frames[j] = state.top_frames[i]

\* Two top frames out of five sampled ones
C19_Witness ==
  /\ Has("top_frames")
  /\ Len(state.sampled_frames) = MaxTopInputFrames
  /\ Len(state.top_frames) = 2
  /\ calls["selectTopFrames"] = 1

\* C20: the delay select_best_frame sleeps after failed attempt k is the
\* delay the provider suggested when the failure is quota-classified and
\* carries one, and 5 seconds x k in every other case.
C20_SuggestedOrBackoff ==
  [][(node = "select_best_frame" /\ pc = "run" /\ pc' = "sleep") =>
       delay' = IF last_error'.quota /\ last_error'.hint # None
                  THEN last_error'.hint
                  ELSE best_frame_base_delay * (attempt + 1)]_vars

\* The first attempt failed on a quota error that names no delay
C20_Witness ==
  /\ node = "select_best_frame"
  /\ pc = "sleep"
  /\ attempt = 0
  /\ last_error.quota
  /\ last_error.hint = None
  /\ delay = default_retry_after

\* C21: generate_enhanced_shot makes at most 3 attempts per style, and the
\* delay it sleeps after failed attempt k is the delay the provider
\* suggested when the quota error carries one, and 20 seconds x k otherwise.
C21_EnhanceBackoff ==
  /\ [](node = "enhance_images" => attempt < enhance_attempts)
  /\ [][(node = "enhance_images" /\ pc = "run" /\ pc' = "sleep") =>
           delay' = IF last_error'.quota /\ last_error'.hint # None
                      THEN last_error'.hint
                      ELSE enhance_base_delay * (attempt + 1)]_vars

\* The second attempt of a style failed on a quota error that names no delay
C21_Witness ==
  /\ node = "enhance_images"
  /\ pc = "sleep"
  /\ attempt = 1
  /\ last_error.quota
  /\ last_error.hint = None
  /\ delay = default_retry_after

\* C22: the styles are tried in the order studio, lifestyle, creative; a
\* style that ends (with a shot or without) is followed by the next one
\* unless 2 shots exist, in which case the node returns; so creative is
\* tried exactly when studio or lifestyle gave no shot, and enhanced_shots
\* starts with the generated shots in style order.
C22_StyleOrder ==
  /\ [](node = "enhance_images" =>
          /\ style_idx \in 1..Len(styles)
          /\ Len(enhanced_paths) < shots_wanted
          /\ Len(enhanced_paths) < style_idx
          /\ enhanced_paths = GeneratedShots)
  /\ [][(node = "enhance_images" /\ pc = "run" /\ pc' # "sleep") =>
           IF Len(GeneratedShots') < shots_wanted /\ style_idx < Len(styles)
             THEN node' = "enhance_images" /\ style_idx' = style_idx + 1
             ELSE /\ node' = "END"
                  /\ SubSeq(state'.enhanced_shots, 1, Len(GeneratedShots')) = GeneratedShots']_vars
  /\ []((/\ node = "END"
          /\ Exists(enhancement_path(job_paths.job_id, <<"studio", 0>>))
          /\ Exists(enhancement_path(job_paths.job_id, <<"lifestyle", 0>>)))
         => ~Exists(enhancement_path(job_paths.job_id, <<"creative", 0>>)))

C22_Witness ==
  /\ node = "END"
  /\ GeneratedShots = <<enhancement_path(job_paths.job_id, <<"studio", 0>>),
                        enhancement_path(job_paths.job_id, <<"creative", 0>>)>>
  /\ state.enhanced_shots = GeneratedShots

\* The stages after n on the path of the graph
LaterStages(n) ==
  CASE n = "select_top_frames" ->
         {"identify_product", "select_best_frame", "segment_image", "enhance_images"}
    [] n = "identify_product" -> {"select_best_frame", "segment_image", "enhance_images"}

NeverStarted(stages) == \A i \in 1..Len(started) : started[i] \notin stages

SingleCallStages == {"select_top_frames", "identify_product"}

\* C23: select_top_frames and identify_product call the provider at most
\* once per job and never sleep; every step of either node ends the node;
\* a provider failure makes the service raise, and the raise ends the job
\* in that stage with no later stage started.
C23_SingleCallNoRetry ==
  /\ [](/\ calls["selectTopFrames"] <= 1
        /\ calls["identifyProduct"] <= 1
        /\ sleeps["select_top_frames"] = 0
        /\ sleeps["identify_product"] = 0
        /\ \A e \in ProviderErrors :
             /\ ~identify_product(ErrorAnswer(e)).ok
             /\ \A n \in (top_n + 1)..MaxVideoFrames :
                  /\ ~select_top_frames(n, ErrorAnswer(e)).ok
                  /\ select_top_frames(n, ErrorAnswer(e)).called
        /\ (node = "RAISED" /\ FailedStage \in SingleCallStages) =>
             NeverStarted(LaterStages(FailedStage)))
  /\ [][(node \in SingleCallStages) =>
           (/\ node' \in {Edge(node), "RAISED"}
            /\ sleeps' = sleeps
            /\ pc' = "run"
            /\ (node' = "RAISED" => (error' # NoError /\ state' = state)))]_vars

\* The provider call of identify_product failed and the job failed there
C23_Witness ==
  /\ node = "RAISED"
  /\ FailedStage = "identify_product"
  /\ calls["identifyProduct"] = 1
  /\ error = Exc("GeminiServiceError", "Gemini product identification failed")
  /\ sleeps["identify_product"] = 0

BlankTexts == {<<>>, <<" ">>, <<" ", " ">>}

EmptyNameFailure ==
  /\ node = "RAISED"
  /\ error = Exc("GeminiServiceError", "Gemini returned an empty product name")

\* C24: a product_name in the state is non-empty and carries no surrounding
\* whitespace; an empty or whitespace-only answer makes identify_product
\* raise, the job fails in identify_product and no later stage runs.
C24_NameNonEmpty ==
  /\ Has("product_name") =>
       /\ state.product_name # <<>>
       /\ Strip(state.product_name) = state.product_name
  /\ \A t \in BlankTexts : ~identify_product(TextAnswer(t)).ok
  /\ EmptyNameFailure =>
       /\ FailedStage = "identify_product"
       /\ ~Has("product_name")
       /\ NeverStarted(LaterStages("identify_product"))
       /\ calls["selectBestFrame"] = 0 /\ calls["segment"] = 0
       /\ calls["remove"] = 0 /\ calls["generateShot"] = 0

C24_Witness ==
  /\ EmptyNameFailure
  /\ calls["identifyProduct"] = 1

\* The calls made to the Gemini models
VisionCalls ==
  calls["selectTopFrames"] + calls["identifyProduct"] + calls["selectBestFrame"]
    + calls["segment"] + calls["generateShot"]

\* C28: one job calls the provider at most once for select_top_frames, once
\* for identify_product, 3 times for select_best_frame, once for
\* segment_product and 9 times for generate_enhanced_shot: 15 calls at most.
C28_CallBudget ==
  /\ calls["selectTopFrames"] <= 1
  /\ calls["identifyProduct"] <= 1
  /\ calls["selectBestFrame"] <= best_frame_max_retries
  /\ calls["segment"] <= segment_max_retries
  /\ calls["generateShot"] <= enhance_attempts * Len(styles)
  /\ VisionCalls <= 2 + best_frame_max_retries + segment_max_retries
                      + enhance_attempts * Len(styles)
  /\ 2 + best_frame_max_retries + segment_max_retries
        + enhance_attempts * Len(styles) = 15

\* A job that spent the whole budget
C28_Witness ==
  /\ node = "END"
  /\ calls["selectTopFrames"] = 1
  /\ calls["identifyProduct"] = 1
  /\ calls["selectBestFrame"] = 3
  /\ calls["segment"] = 1
  /\ calls["generateShot"] = 9

StyleNames == {styles[i] : i \in 1..Len(styles)}

\* {root}/{job}/enhanced/enhanced_{style}.png
IsStyleShot(path, job) ==
  /\ path.job = job /\ path.dir = "enhanced"
  /\ path.name \in StyleNames /\ path.n = 0

\* {root}/{job}/enhanced/enhanced_fallback_{k}.png
IsFallbackShot(path, job, k) ==
  /\ path.job = job /\ path.dir = "enhanced"
  /\ path.name = "fallback" /\ path.n = k

SegmentedAtFixedPath ==
  /\ state.segmented_image_path = Path(job_paths.job_id, ".", "segmented", 0)
  /\ Exists(state.segmented_image_path)

\* C27 as stated: in a completed job segmented_image_path is
\* {root}/{job}/segmented.png and every entry of enhanced_shots is
\* enhanced_{style}.png for one of the three styles.
C27_StyleNamedShots ==
  node = "END" =>
    /\ SegmentedAtFixedPath
    /\ \A i \in 1..Len(state.enhanced_shots) :
         IsStyleShot(state.enhanced_shots[i], job_paths.job_id)

\* C27 amended: in a completed job segmented_image_path is
\* {root}/{job}/segmented.png whichever strategy wrote it, and entry i of
\* enhanced_shots is enhanced_{style}.png for a generated shot and
\* enhanced_fallback_{i}.png for a padded copy.
C27_OutputLayout ==
  node = "END" =>
    /\ SegmentedAtFixedPath
    /\ \A i \in 1..Len(state.enhanced_shots) :
         LET path == state.enhanced_shots[i] IN
         /\ Exists(path)
         /\ IF i <= Len(GeneratedShots)
              THEN IsStyleShot(path, job_paths.job_id)
              ELSE IsFallbackShot(path, job_paths.job_id, i)

\* rembg wrote the segmented image and one shot is a padded copy
C27_Witness ==
  /\ node = "END"
  /\ calls["remove"] = 1
  /\ Len(GeneratedShots) = 1
  /\ IsStyleShot(state.enhanced_shots[1], job_paths.job_id)
  /\ IsFallbackShot(state.enhanced_shots[2], job_paths.job_id, 2)

\* select_best_frame raised into its node, which is about to fall back
BestFrameFallingBack ==
  node = "select_best_frame" /\ pc = "resolve" /\ result.kind = "raise"

\* The Gemini segmentation failed and rembg wrote the segmented image
RemoverSucceeded == calls["remove"] = 1 /\ Has("segmented_image_path")

\* The style loop went past a style that gave no shot
StyleSkipped == node = "enhance_images" /\ style_idx > Len(enhanced_paths) + 1

CompletedWithoutError ==
  /\ node = "END"
  /\ error = NoError
  /\ "error" \notin DOMAIN state

AbsorbedMessages ==
  {"Gemini best frame selection failed",
   "Unable to parse frame index from Gemini response",
   "Gemini segmentation failed",
   "Gemini did not return image data for segmentation",
   "Gemini image enhancement failed",
   "Gemini did not return image data in response"}

\* C29 as stated: after a best-frame fallback, a segmentation through rembg
\* or a skipped style the job ends Completed with no error.
C29_AlwaysCompleted ==
  (BestFrameFallingBack \/ RemoverSucceeded \/ StyleSkipped) ~> CompletedWithoutError

\* C29 amended: after a segmentation through rembg or a skipped style the
\* job ends Completed with no error; after a best-frame fallback it does so
\* unless both segmentation strategies fail afterwards; a Completed job
\* carries no error, and the error of a failed job is never one that a
\* fallback or skip absorbed.
C29_AbsorbedNotSurfaced ==
  /\ (RemoverSucceeded \/ StyleSkipped) ~> CompletedWithoutError
  /\ BestFrameFallingBack ~>
       (CompletedWithoutError \/ (node = "RAISED" /\ BothSegmentationsFailed))
  /\ [](node = "END" => CompletedWithoutError)
  /\ [](node = "RAISED" => error.msg \notin AbsorbedMessages)

\* Completed although the best frame fell back, rembg segmented and two
\* styles were skipped
C29_Witness ==
  /\ node = "END"
  /\ response = "success"
  /\ calls["selectBestFrame"] = best_frame_max_retries
  /\ state.best_frame_path = state.top_frames[1]
  /\ calls["remove"] = 1
  /\ Len(GeneratedShots) = 1

PairwiseDistinct(seq) ==
  \A i \in 1..Len(seq) : \A j \in 1..Len(seq) : i # j => seq[i] # seq[j]

\* C30: the indices select_top_frames returns are pairwise distinct whatever
\* the provider answered, so top_frames never holds the same frame twice.
C30_TopFramesDistinct ==
  /\ Has("top_frames") => PairwiseDistinct(state.top_frames)
  /\ (ResolvingTopText /\ select_top_frames(Len(state.sampled_frames), result).ok) =>
       PairwiseDistinct(select_top_frames(Len(state.sampled_frames), result).value)

\* The provider answered "3,3,3" for four sampled frames
C30_Witness ==
  /\ ResolvingTopText
  /\ Len(state.sampled_frames) = 4
  /\ result.text = <<"3", ",", "3", ",", "3">>

Sampling == node = "extract_frames" /\ pc = "sample"

Chronological(frames) ==
  \A i \in 1..Len(frames) : \A j \in 1..Len(frames) :
    i < j => frames[i].n < frames[j].n

\* C25: the sampling step ends the node at once, without another download,
\* sleep or collaborator call; it fails the job when the reported duration
\* exceeds max_video_duration or when no frame is saved; and sampled_frames,
\* once set, holds between 1 and 15 existing frames in increasing frame
\* order.
C25_ExtractionOutcome ==
  /\ [][Sampling =>
          (/\ node' \in {"RAISED", "select_top_frames"}
           /\ sleeps' = sleeps /\ calls' = calls
           /\ (Truthy(duration) /\ duration > max_video_duration) =>
                (node' = "RAISED" /\ error'.msg = "Video duration exceeds limit")
           /\ node' = "RAISED" <=> ~("sampled_frames" \in DOMAIN state')
           /\ (node' = "RAISED" => started' = <<"extract_frames">>))]_vars
  /\ [](\A reported \in Durations, fps \in FpsValues, written \in BOOLEAN :
          ~download_and_sample_frames(reported, TRUE, fps, 0, written).ok)
  /\ [](Has("sampled_frames") =>
          /\ Len(state.sampled_frames) >= 1
          /\ Len(state.sampled_frames) <= max_frames
          /\ Chronological(state.sampled_frames)
          /\ \A i \in 1..Len(state.sampled_frames) : Exists(state.sampled_frames[i]))

\* The video had more sampling points than max_frames
C25_Witness ==
  /\ Has("sampled_frames")
  /\ Len(state.sampled_frames) = max_frames
  /\ state.sampled_frames[max_frames].n = (max_frames - 1) * FrameInterval(1)

\* The paths a step creates or overwrites
WrittenPaths == {p \in DOMAIN fs' : p \notin DOMAIN fs \/ fs'[p] # fs[p]}

\* The variables of the job itself, the filesystem left out
job_vars ==
  <<state, job_paths, node, pc, error, response, attempt, delay, style_idx,
    enhanced_paths, gemini_error, last_error, duration, result, started,
    returned, calls, sleeps>>

\* The paths the state of the job refers to
StatePaths ==
  (IF Has("sampled_frames")
     THEN {state.sampled_frames[i] : i \in 1..Len(state.sampled_frames)} ELSE {})
  \cup (IF Has("top_frames")
          THEN {state.top_frames[i] : i \in 1..Len(state.top_frames)} ELSE {})
  \cup (IF Has("best_frame_path") THEN {state.best_frame_path} ELSE {})
  \cup (IF Has("segmented_image_path") THEN {state.segmented_image_path} ELSE {})
  \cup (IF Has("enhanced_shots")
          THEN {state.enhanced_shots[i] : i \in 1..Len(state.enhanced_shots)} ELSE {})

\* C26: with a job of another id running in any interleaving, every step
\* of this job writes only paths under its own {root}/{job_id}, every step
\* of the other job only paths under the other id and nothing of this
\* job's state; no file is ever removed; and every path the state refers to
\* lies under this job's directory.
C26_JobsDisjoint ==
  /\ [][/\ \A p \in DOMAIN fs : p \in DOMAIN fs'
        /\ IF job_vars' # job_vars
             THEN \A p \in WrittenPaths : p.job = job_paths.job_id
             ELSE \A p \in WrittenPaths : p.job \in OtherJobIds]_vars
  /\ [](job_paths.job_id \notin OtherJobIds)
  /\ [](\A p \in StatePaths : p.job = job_paths.job_id /\ Exists(p))

\* Both jobs have written all their files
C26_Witness ==
  /\ node = "END"
  /\ Len(GeneratedShots) = 1
  /\ \A other \in OtherJobIds : \A i \in 1..Len(OtherJobFiles(other)) :
       Exists(OtherJobFiles(other)[i].path)
  /\ \A p \in StatePaths : p.job = job_paths.job_id

NodeSet == {Nodes[i] : i \in 1..Len(Nodes)}

\* The position of a node on the path of the graph
StageIndex(nd) == CHOOSE i \in 1..Len(Nodes) : Nodes[i] = nd

\* The field each node returns, in the order of Nodes
StageFields ==
  <<"sampled_frames", "top_frames", "product_name", "best_frame_path",
    "segmented_image_path", "enhanced_shots">>

\* The fields each node reads from the state
ReadFields(nd) ==
  CASE nd = "extract_frames" -> {"video_url"}
    [] nd = "select_top_frames" -> {"sampled_frames"}
    [] nd = "identify_product" -> {"top_frames"}
    [] nd = "select_best_frame" -> {"top_frames", "product_name"}
    [] nd = "segment_image" -> {"best_frame_path", "product_name"}
    [] nd = "enhance_images" -> {"segmented_image_path", "product_name"}

MissingFieldMessages ==
  {"No frames available for top frame selection",
   "No top frames available for product identification",
   "No top frames available for best frame selection"}

\* C31: while a node runs, the initial fields and the fields of all earlier
\* nodes are set, its own field and those of all later nodes are not, and
\* so every field the node reads is set; no job fails on a missing field;
\* a Completed job has all six fields.
C31_FieldsSetInOrder ==
  /\ {"video_url", "job_id"} \subseteq DOMAIN state
  /\ node \in NodeSet =>
       /\ \A i \in 1..Len(StageFields) :
            Has(StageFields[i]) <=> i < StageIndex(node)
       /\ ReadFields(node) \subseteq DOMAIN state
  /\ node = "RAISED" =>
       /\ error.type # "KeyError"
       /\ error.msg \notin MissingFieldMessages
  /\ node = "END" => \A i \in 1..Len(StageFields) : Has(StageFields[i])

\* The last node is in the middle of its style loop
C31_Witness ==
  /\ node = "enhance_images"
  /\ pc = "sleep"
  /\ style_idx = 2
  /\ Has("segmented_image_path")
  /\ ~Has("enhanced_shots")

\* The provider operation of each node that has a retry loop
RetryOp(nd) ==
  CASE nd = "select_best_frame" -> "selectBestFrame"
    [] nd = "enhance_images" -> "generateShot"

RetryNodes == {"select_best_frame", "enhance_images"}

Sleeping == node \in RetryNodes /\ pc = "sleep"

\* C32: select_best_frame sleeps at most 2 times per job and
\* generate_enhanced_shot at most 2 times per style; the other nodes never
\* sleep; a loop sleeps only with an attempt left, and the step after the
\* sleep is the next provider call of the same node.
C32_NoSleepAfterLastAttempt ==
  /\ [](/\ sleeps["select_best_frame"] <= best_frame_max_retries - 1
        /\ sleeps["enhance_images"] <= (enhance_attempts - 1) * Len(styles)
        /\ sleeps["select_top_frames"] = 0
        /\ sleeps["identify_product"] = 0
        /\ sleeps["segment_image"] = 0
        /\ (node = "select_best_frame" /\ pc = "sleep") =>
             attempt < best_frame_max_retries - 1
        /\ (node = "enhance_images" /\ pc = "sleep") =>
             attempt < enhance_attempts - 1
        /\ node = "enhance_images" =>
             sleeps["enhance_images"] <= (enhance_attempts - 1) * (style_idx - 1) + attempt)
  /\ [][Sleeping =>
          (/\ node' = node /\ pc' = "run"
           /\ sleeps'[node] = sleeps[node] + 1
           /\ attempt' = attempt + 1
           /\ calls' = calls)]_vars
  /\ [][(node \in RetryNodes /\ pc = "run" /\ attempt > 0) =>
          calls'[RetryOp(node)] = calls[RetryOp(node)] + 1]_vars

\* The second sleep of the third style is over
C32_Witness ==
  /\ node = "enhance_images"
  /\ pc = "run"
  /\ style_idx = Len(styles)
  /\ attempt = enhance_attempts - 1
  /\ sleeps["enhance_images"] = (enhance_attempts - 1) * Len(styles)
  /\ sleeps["select_best_frame"] = best_frame_max_retries - 1

NonQuotaErrors == {e \in ProviderErrors : ~_is_quota_error(e).is_quota}

Enhancing == node = "enhance_images" /\ pc = "run"

\* C33: generate_enhanced_shot raises at once on a failure that is not
\* quota-classified, at whichever attempt; a provider call of the style
\* loop is followed by a sleep only when it failed on a quota error, and
\* otherwise ends the style in the same step with no sleep; so a second or
\* third attempt is only made after quota failures.
C33_NonQuotaNotRetried ==
  /\ [](\A e \in NonQuotaErrors : \A att \in 0..(enhance_attempts - 1) :
          generate_enhanced_shot(att, ErrorAnswer(e)).kind = "raise")
  /\ []((node = "enhance_images" /\ (attempt > 0 \/ pc = "sleep")) =>
          (last_error.quota /\ last_error \notin NonQuotaErrors))
  /\ [][Enhancing =>
          (/\ calls'["generateShot"] = calls["generateShot"] + 1
           /\ sleeps' = sleeps
           /\ IF pc' = "sleep"
                THEN /\ last_error'.quota
                     /\ node' = node /\ style_idx' = style_idx
                ELSE \/ node' = "END"
                     \/ node' = node /\ style_idx' = style_idx + 1 /\ attempt' = 0)]_vars

\* The studio style was given up after one provider call and no sleep
C33_Witness ==
  /\ Enhancing
  /\ style_idx = 2
  /\ attempt = 0
  /\ enhanced_paths = <<>>
  /\ calls["generateShot"] = 1
  /\ sleeps["enhance_images"] = 0

\* The segmented image exists and the Gemini strategy wrote it
SegmentedByGemini ==
  /\ Exists(segmented_image_path(job_paths.job_id))
  /\ fs[segmented_image_path(job_paths.job_id)].by = "gemini_segment"

\* C34: rembg is called at most once per job, only by the segmentation
\* node after its Gemini call failed in this job; a step in which the
\* Gemini image is saved ends the node without a call of rembg, and no
\* later step calls it.
C34_RemoverOnlyAfterFailure ==
  /\ [](/\ calls["remove"] <= 1
        /\ SegmentedByGemini => calls["remove"] = 0
        /\ (node = "segment_image" /\ pc = "fallback") =>
             /\ gemini_error # NoError
             /\ calls["segment"] = segment_max_retries
             /\ calls["remove"] = 0
             /\ ~Exists(segmented_image_path(job_paths.job_id)))
  /\ [][calls'["remove"] # calls["remove"] =>
          (/\ node = "segment_image" /\ pc = "fallback"
           /\ gemini_error # NoError
           /\ node' \in {"enhance_images", "RAISED"})]_vars
  /\ [][(node = "segment_image" /\ pc = "run" /\ SegmentedByGemini') =>
          (/\ node' = "enhance_images"
           /\ calls'["remove"] = 0
           /\ state'.segmented_image_path = segmented_image_path(job_paths.job_id))]_vars

\* Completed on the image Gemini segmented
C34_Witness ==
  /\ node = "END"
  /\ SegmentedByGemini
  /\ calls["segment"] = 1
  /\ calls["remove"] = 0
====
